---- MODULE Spec2Model ----
(***************************************************************************)
(* The KYC document pipeline of fde_poc.py: DocumentReader (the schema     *)
(* registry and the required-field validator), KYCProcessor                *)
(* (process_kyc_document and its stages) and the date reasonability check. *)
(*                                                                         *)
(* Text that the code transforms or takes apart (classification tokens,    *)
(* date strings, JSON values) is a sequence of one-character strings.      *)
(* Field names, which the code only compares, are TLA+ strings.            *)
(* A text handed to json.loads is represented by what it parses to: a      *)
(* record [type |-> "str", kind, obj], kind being the JSON kind of its     *)
(* content ("invalid" when it is no JSON) and obj the ordered key/value    *)
(* pairs when it is an object.                                             *)
(***************************************************************************)
EXTENDS Integers, Sequences, FiniteSets, TLC

VARIABLES
    pc,             \* per run: the stage process_kyc_document is at
    start_time,     \* per run: start_time (line 140)
    image_size,     \* per run: len(image_data)
    quality_check,  \* per run: the assessment _validate_image_quality returned
    doc_type,       \* per run: the token _detect_document_type returned
    extracted_info, \* per run: the dict _extract_document_info returned
    calls,          \* per run: capabilities and stages invoked so far, in order
    result,         \* per run: the dict process_kyc_document returned
    escaped,        \* per run: an exception left process_kyc_document
    responses,      \* per run: what each capability call returned or raised
    registry,       \* self._document_configs of the DocumentReader the runs share
    now,            \* time.time(), in ticks
    today,          \* datetime.now(), as <<year, month, day>>
    v_doc_type,     \* validate_extracted_data applied alone: its arguments ...
    v_payload,
    v_out,          \* ... and what it returned
    d_str,          \* _validate_date_reasonability applied alone: its argument
    d_out           \* ... and what it returned

vars == <<pc, start_time, image_size, quality_check, doc_type, extracted_info,
          calls, result, escaped, responses, registry, now, today, v_doc_type, v_payload,
          v_out, d_str, d_out>>

pipeVars == <<pc, start_time, image_size, quality_check, doc_type,
              extracted_info, calls, result, escaped, responses, registry, now>>

----------------------------------------------------------------------------
(* Python values and exceptions *)

\* A call either returns a value or raises an exception.
Ok(v) == [ok |-> TRUE, val |-> v]

Raise(cls, text, arg) == [ok |-> FALSE, exc |-> [cls |-> cls, text |-> text, arg |-> arg]]

\* The exception classes that occur and their direct base class.
BaseOf(cls) ==
    CASE cls = "JSONDecodeError" -> "ValueError"
      [] cls = "Exception" -> "BaseException"
      [] cls = "BaseException" -> "object"
      [] OTHER -> "Exception"

\* isinstance(e, base), as an except clause tests it.
IsInstance(cls, base) ==
    \/ cls = base
    \/ BaseOf(cls) = base
    \/ BaseOf(BaseOf(cls)) = base
    \/ BaseOf(BaseOf(BaseOf(cls))) = base

\* Optional[...]: None is the empty sequence, a value v is <<v>>.
None == <<>>

Some(v) == <<v>>

----------------------------------------------------------------------------
(* Text *)

Digits == <<"0", "1", "2", "3", "4", "5", "6", "7", "8", "9">>

UpperCase == <<"A", "B", "C", "D", "E", "F", "G", "H", "I", "J", "K", "L", "M",
               "N", "O", "P", "Q", "R", "S", "T", "U", "V", "W", "X", "Y", "Z">>

LowerCase == <<"a", "b", "c", "d", "e", "f", "g", "h", "i", "j", "k", "l", "m",
               "n", "o", "p", "q", "r", "s", "t", "u", "v", "w", "x", "y", "z">>

Whitespace == {" ", "\n", "\t", "\r"}

IsDigit(c) == \E i \in 1..Len(Digits) : Digits[i] = c

DigitVal(c) == (CHOOSE i \in 1..Len(Digits) : Digits[i] = c) - 1

\* str.lower()
LowerChar(c) ==
    IF \E i \in 1..Len(UpperCase) : UpperCase[i] = c
    THEN LowerCase[CHOOSE i \in 1..Len(UpperCase) : UpperCase[i] = c]
    ELSE c

Lower(s) == [i \in 1..Len(s) |-> LowerChar(s[i])]

\* str.strip()
Strip(s) ==
    LET keep == {i \in 1..Len(s) : s[i] \notin Whitespace}
    IN  IF keep = {} THEN <<>>
        ELSE LET lo == CHOOSE i \in keep : \A j \in keep : i <= j
                 hi == CHOOSE i \in keep : \A j \in keep : j <= i
             IN  SubSeq(s, lo, hi)

\* int() of a run of at most four digits
IntOf(s) ==
    LET n == Len(s)
    IN  (IF n >= 1 THEN DigitVal(s[n]) ELSE 0)
        + (IF n >= 2 THEN 10 * DigitVal(s[n - 1]) ELSE 0)
        + (IF n >= 3 THEN 100 * DigitVal(s[n - 2]) ELSE 0)
        + (IF n >= 4 THEN 1000 * DigitVal(s[n - 3]) ELSE 0)

----------------------------------------------------------------------------
(* dict: an ordered sequence of <<key, value>> pairs with distinct keys *)

DictKeys(d) == [i \in 1..Len(d) |-> d[i][1]]

DictValues(d) == [i \in 1..Len(d) |-> d[i][2]]

DictHas(d, k) == \E i \in 1..Len(d) : d[i][1] = k

\* d.get(k, default)
DictGet(d, k, default) ==
    IF DictHas(d, k) THEN d[CHOOSE i \in 1..Len(d) : d[i][1] = k][2] ELSE default

----------------------------------------------------------------------------
(* JSON *)

\* A str whose content is JSON text of the given kind.
Text(kind, obj) == [type |-> "str", kind |-> kind, obj |-> obj]

\* A Python dict.
PyDict(obj) == [type |-> "dict", kind |-> "object", obj |-> obj]

PyTypeOfKind(kind) ==
    CASE kind = "object" -> "dict"
      [] kind = "array" -> "list"
      [] kind = "string" -> "str"
      [] kind = "number" -> "int"
      [] kind = "null" -> "NoneType"

\* Mutant: text that is no JSON parses to the empty object.
json_loads_lenient(s) ==
    IF s.kind = "invalid"
    THEN Ok([type |-> "dict", kind |-> "object", obj |-> <<>>])
    ELSE Ok([type |-> PyTypeOfKind(s.kind), kind |-> s.kind, obj |-> s.obj])

\* json.loads(s)
json_loads(s) ==
    IF s.kind = "invalid"
    THEN Raise("JSONDecodeError", "Expecting value", <<>>)
    ELSE Ok([type |-> PyTypeOfKind(s.kind), kind |-> s.kind, obj |-> s.obj])

----------------------------------------------------------------------------
(* DocumentType and DocumentReader *)

PASSPORT == <<"p", "a", "s", "s", "p", "o", "r", "t">>

LICENSE == <<"l", "i", "c", "e", "n", "s", "e">>

NATIONAL_ID == <<"n", "a", "t", "i", "o", "n", "a", "l", "_", "i", "d">>

UTILITY_BILL == <<"u", "t", "i", "l", "i", "t", "y", "_", "b", "i", "l", "l">>

BANK_STATEMENT == <<"b", "a", "n", "k", "_", "s", "t", "a", "t", "e", "m", "e", "n", "t">>

DocumentType == {PASSPORT, LICENSE, NATIONAL_ID, UTILITY_BILL, BANK_STATEMENT}

\* The table __init__ builds for self._document_configs, in insertion order
document_configs == <<
    [key |-> PASSPORT,
     required_fields |-> <<"full_name", "date_of_birth", "passport_number", "nationality", "expiry_date">>,
     prompt |-> "Extract in JSON format: full_name date_of_birth passport_number nationality expiry_date"],
    [key |-> LICENSE,
     required_fields |-> <<"full_name", "date_of_birth", "license_number", "state", "expiry_date">>,
     prompt |-> "Extract in JSON format: full_name date_of_birth license_number state expiry_date"],
    [key |-> NATIONAL_ID,
     required_fields |-> <<"full_name", "date_of_birth", "id_number", "nationality">>,
     prompt |-> "Extract in JSON format: full_name date_of_birth id_number nationality"],
    [key |-> UTILITY_BILL,
     required_fields |-> <<"service_provider", "customer_name", "address", "bill_date", "amount">>,
     prompt |-> "Extract in JSON format: service_provider customer_name address bill_date amount"],
    [key |-> BANK_STATEMENT,
     required_fields |-> <<"bank_name", "account_holder", "account_number", "statement_period", "balance">>,
     prompt |-> "Extract in JSON format: bank_name account_holder account_number statement_period balance"] >>

\* self._document_configs.get(doc_type)
ConfigGet(dt) ==
    IF \E i \in 1..Len(registry) : registry[i].key = dt
    THEN Some(registry[CHOOSE i \in 1..Len(registry) : registry[i].key = dt])
    ELSE None

get_document_prompt(dt) ==
    LET config == ConfigGet(dt)
    IN  IF config # None THEN Some(config[1].prompt) ELSE None

\* Mutant: a token without an entry gets the first entry's fields.
get_required_fields_defaulting(dt) ==
    LET config == ConfigGet(dt)
    IN  IF config # None THEN config[1].required_fields
        ELSE document_configs[1].required_fields

\* lines 91-94
get_required_fields(dt) ==
    LET config == ConfigGet(dt)
    IN  IF config # None THEN config[1].required_fields ELSE <<>>

\* Mutant: the comprehension keeps the fields that are present.
MissingFields_present(required_fields, data) ==
    SelectSeq(required_fields, LAMBDA field : DictHas(data, field))

\* [field for field in required_fields if field not in data]
MissingFields(required_fields, data) ==
    SelectSeq(required_fields, LAMBDA field : ~DictHas(data, field))

\* The body of the try block (lines 106-121), data being the parsed value.
ValidateParsed(dt, required_fields, data) ==
    IF data.type \in {"int", "NoneType"}
    THEN Raise("TypeError", "argument is not iterable", <<>>)
    ELSE IF data.type # "dict"
    THEN Raise("AttributeError", "object has no attribute 'keys'", <<>>)
    ELSE LET missing_fields == MissingFields(required_fields, data.obj)
         IN  Ok([is_valid |-> Len(missing_fields) = 0,
                 missing_fields |-> missing_fields,
                 validation_details |->
                     [required_fields |-> required_fields,
                      provided_fields |-> DictKeys(data.obj)]])

validate_extracted_data(dt, extracted_data) ==
    LET required_fields == get_required_fields(dt)
    IN  IF required_fields = <<>>
        THEN Ok([is_valid |-> FALSE,
                 error |-> [text |-> "Unknown document type: ", arg |-> dt]])
        ELSE LET parsed == IF extracted_data.type = "str"
                           THEN json_loads(extracted_data)
                           ELSE Ok(extracted_data)
             IN  IF ~parsed.ok
                 THEN IF IsInstance(parsed.exc.cls, "JSONDecodeError")
                      THEN Ok([is_valid |-> FALSE,
                               error |-> [text |-> "Invalid JSON format in extracted data",
                                          arg |-> <<>>]])
                      ELSE parsed
                 ELSE ValidateParsed(dt, required_fields, parsed.val)

----------------------------------------------------------------------------
(* _validate_date_reasonability *)

IsLeap(y) == (y % 4 = 0 /\ y % 100 # 0) \/ y % 400 = 0

DaysInMonth(y, m) ==
    IF m = 2 THEN (IF IsLeap(y) THEN 29 ELSE 28)
    ELSE IF m \in {4, 6, 9, 11} THEN 30 ELSE 31

\* %Y : \d\d\d\d
MatchesYear(s) == Len(s) = 4 /\ \A i \in 1..4 : IsDigit(s[i])

\* %m : 1[0-2]|0[1-9]|[1-9]
MatchesMonth(s) ==
    \/ Len(s) = 2 /\ s[1] = "1" /\ s[2] \in {"0", "1", "2"}
    \/ Len(s) = 2 /\ s[1] = "0" /\ IsDigit(s[2]) /\ s[2] # "0"
    \/ Len(s) = 1 /\ IsDigit(s[1]) /\ s[1] # "0"

\* %d : 3[01]|[12]\d|0[1-9]|[1-9]| [1-9]
MatchesDay(s) ==
    \/ Len(s) = 2 /\ s[1] = "3" /\ s[2] \in {"0", "1"}
    \/ Len(s) = 2 /\ s[1] \in {"1", "2"} /\ IsDigit(s[2])
    \/ Len(s) = 2 /\ s[1] \in {"0", " "} /\ IsDigit(s[2]) /\ s[2] # "0"
    \/ Len(s) = 1 /\ IsDigit(s[1]) /\ s[1] # "0"

\* The date a string matching %Y-%m-%d stands for, as <<year, month, day>>,
\* or the ValueError strptime raises.
ParseDate(date_str) ==
    LET dashes == {i \in 1..Len(date_str) : date_str[i] = "-"}
    IN  IF Cardinality(dashes) # 2
        THEN Raise("ValueError", "time data does not match format", date_str)
        ELSE
          LET i1 == CHOOSE i \in dashes : \A j \in dashes : i <= j
              i2 == CHOOSE i \in dashes : \A j \in dashes : j <= i
              ys == SubSeq(date_str, 1, i1 - 1)
              ms == SubSeq(date_str, i1 + 1, i2 - 1)
              ds == SubSeq(date_str, i2 + 1, Len(date_str))
          IN  IF ~(MatchesYear(ys) /\ MatchesMonth(ms) /\ MatchesDay(ds))
              THEN Raise("ValueError", "time data does not match format", date_str)
              ELSE
                LET y == IntOf(ys)
                    m == IntOf(ms)
                    d == IntOf(SelectSeq(ds, IsDigit))
                IN  IF y < 1
                    THEN Raise("ValueError", "year is out of range", date_str)
                    ELSE IF d > DaysInMonth(y, m)
                    THEN Raise("ValueError", "day is out of range for month", date_str)
                    ELSE Ok(<<y, m, d>>)

\* datetime.strptime(date_str, "%Y-%m-%d") (line 313); the argument is
\* evaluated once.
strptime(date_str) == CHOOSE parsed \in {ParseDate(s) : s \in {date_str}} : TRUE

\* (a.month, a.day) < (b.month, b.day)
MonthDayBefore(a, b) == a[2] < b[2] \/ (a[2] = b[2] /\ a[3] < b[3])

\* date > today: date is midnight of its day, today a moment of the current day
DateAfter(date, t) ==
    \/ date[1] > t[1]
    \/ date[1] = t[1] /\ MonthDayBefore(t, date)

\* Mutant: the age is the bare year difference.
Age_yeardiff(t, date) == t[1] - date[1]

\* line 316
Age(t, date) == t[1] - date[1] - (IF MonthDayBefore(t, date) THEN 1 ELSE 0)

\* Mutant: the lower bound is exclusive.
AgeReasonable_exclusive(age) == 18 < age /\ age <= 100

\* line 319
AgeReasonable(age) == 18 <= age /\ age <= 100

\* lines 320-324: one entry per rule, None where the rule does not apply
IssueList(age, date, t) ==
    << IF age < 18 THEN Some("Age below 18") ELSE None,
       IF age > 100 THEN Some("Age appears unreasonable (over 100 years)") ELSE None,
       IF DateAfter(date, t) THEN Some("Date is in the future") ELSE None >>

\* Lines 314-330, given what strptime did: the except branch on a ValueError,
\* else the outcome computed from the parsed date.
DateOutcome(parsed, t) ==
    IF ~parsed.ok
    THEN IF IsInstance(parsed.exc.cls, "ValueError")
         THEN Ok([is_reasonable |-> FALSE,
                  issues |-> <<Some("Invalid date format")>>])
         ELSE parsed
    ELSE LET age == Age(t, parsed.val)
         IN  Ok([is_reasonable |-> AgeReasonable(age),
                 issues |-> IssueList(age, parsed.val, t)])

\* _validate_date_reasonability (lines 308-330); strptime is evaluated once.
validate_date_reasonability(date_str, t) ==
    CHOOSE out \in {DateOutcome(parsed, t) : parsed \in {strptime(date_str)}} : TRUE

----------------------------------------------------------------------------
(* Bounds and input sets *)

\* Birth years range from MaxAge years before the current year ...
MaxAge == 102

\* ... to MaxFuture years after it.
MaxFuture == 1

\* Keys beyond the required ones that a payload may hold.
MaxExtra == 1

\* The clock stops ticking at MaxTime.
MaxTime == 1

Todays == {<<2026, 11, 5>>, <<2024, 2, 29>>}

\* The decimal digits of n, zero-padded to width characters.
RECURSIVE Pad(_, _)
Pad(n, width) ==
    IF width = 0 THEN <<>> ELSE Append(Pad(n \div 10, width - 1), Digits[(n % 10) + 1])

Fmt(y, m, d) == Pad(y, 4) \o <<"-">> \o Pad(m, 2) \o <<"-">> \o Pad(d, 2)

\* Month/day pairs around the current one and at the ends of the year.
MonthDays(t) ==
    {<<t[2], t[3]>>, <<t[2], t[3] - 1>>, <<t[2], t[3] + 1>>,
     <<1, 1>>, <<12, 31>>, <<2, 29>>}

WellFormedDates(t) ==
    {Fmt(y, md[1], md[2]) : y \in (t[1] - MaxAge)..(t[1] + MaxFuture), md \in MonthDays(t)}

OddDates ==
    { <<>>,
      <<"n", "o", "t", "-", "a", "-", "d", "a", "t", "e">>,
      <<"1", "9", "9", "0", "-", "1", "3", "-", "0", "1">>,
      <<"1", "9", "9", "0", "-", "1", "-", "5">>,
      <<"1", "9", "9", "0", "-", "0", "1", "-", " ", "5">>,
      <<"1", "9", "9", "0", "0", "1", "0", "1">>,
      <<"9", "0", "-", "0", "1", "-", "0", "1">>,
      <<"1", "9", "9", "0", "/", "0", "1", "/", "0", "1">>,
      <<"1", "9", "9", "0", "-", "0", "1", "-", "0", "1", "x">>,
      <<"1", "9", "9", "0", "-", "0", "1", "-", "0", "1", "-", "0", "1">>,
      <<"0", "0", "0", "0", "-", "0", "1", "-", "0", "1">> }

DateStrings(t) == WellFormedDates(t) \cup OddDates

ExtraKeys == <<"mrz_line", "issuing_authority", "notes">>

INVOICE == <<"i", "n", "v", "o", "i", "c", "e">>

DocTokens == DocumentType \cup {INVOICE, <<>>}

Reverse(s) == [i \in 1..Len(s) |-> s[Len(s) + 1 - i]]

\* The dicts over the required fields of dt and the first MaxExtra extra keys:
\* any subset of the keys, in registry order or reversed, every value the
\* same text (the empty string included).
KeyUniverse(dt) == get_required_fields(dt) \o SubSeq(ExtraKeys, 1, MaxExtra)

DictOver(keys, val) == [i \in 1..Len(keys) |-> <<keys[i], val>>]

Dicts(dt) ==
    LET U == IF get_required_fields(dt) = <<>> THEN KeyUniverse(PASSPORT) ELSE KeyUniverse(dt)
        range == {U[i] : i \in 1..Len(U)}
    IN  {DictOver(ks, val) :
            ks \in UNION {{SelectSeq(U, LAMBDA k : k \in K),
                           Reverse(SelectSeq(U, LAMBDA k : k \in K))} : K \in SUBSET range},
            val \in {<<>>, <<"x">>}}

Payloads(dt) ==
    {PyDict(d) : d \in Dicts(dt)} \cup {Text("object", d) : d \in Dicts(dt)}
    \cup {Text(k, <<>>) : k \in {"invalid", "array", "string", "number", "null"}}

----------------------------------------------------------------------------
(* KYCProcessor *)

Runs == {"r1", "r2"}

\* 20 * 1024 * 1024 (line 148)
MaxImageBytes == 20 * 1024 * 1024

YES == <<"y", "e", "s">>

NO == <<"n", "o">>

Msg(text, arg) == [text |-> text, arg |-> arg]

\* str(e)
StrOfExc(exc) == Msg(exc.text, exc.arg)

NoResult == [status |-> "none"]

NoInfo == [extracted_data |-> Text("invalid", <<>>)]

NoAssessment == [type |-> "NoneType", kind |-> "null", obj |-> <<>>]

NoResponses == [quality |-> None, classify |-> None, extract |-> None]

\* Mutant: the comparison is >=.
ImageTooLarge_ge(n) == n >= MaxImageBytes

\* len(image_data) > 20 * 1024 * 1024 (line 148)
ImageTooLarge(n) == n > MaxImageBytes

\* The assessment the except branch of _validate_image_quality returns (line 306).
AllFailing == PyDict(<< <<"centered", NO>>, <<"clear", NO>>, <<"fully_visible", NO>> >>)

\* Mutant: _validate_image_quality without its try/except.
validate_image_quality_propagating(outcome) ==
    IF ~outcome.ok THEN outcome ELSE json_loads(outcome.val)

\* _validate_image_quality, given what the capability call did (lines 288-306):
\* any exception of the call or of json.loads yields the all-failing assessment.
validate_image_quality(outcome) ==
    IF ~outcome.ok
    THEN (IF IsInstance(outcome.exc.cls, "Exception") THEN Ok(AllFailing) ELSE outcome)
    ELSE LET parsed == json_loads(outcome.val)
         IN  IF ~parsed.ok
             THEN (IF IsInstance(parsed.exc.cls, "Exception") THEN Ok(AllFailing) ELSE parsed)
             ELSE parsed

\* Mutant: the gate passes when any value is "yes".
AllYes_any(values) == \E i \in 1..Len(values) : values[i] = YES

\* all(v == "yes" for v in values) (line 156)
AllYes(values) == \A i \in 1..Len(values) : values[i] = YES

\* quality_check.values() (line 156)
AssessmentValues(qc) ==
    IF qc.type = "dict" THEN Ok(DictValues(qc.obj))
    ELSE Raise("AttributeError", "object has no attribute 'values'", <<>>)

\* Mutant: the Failure reports the default assessment, not the evaluated one.
QualityFailure_default(qc, elapsed) ==
    [status |-> "error",
     error_message |-> Msg("Image quality check failed", <<>>),
     quality_issues |-> AllFailing,
     processing_time_seconds |-> elapsed]

\* lines 157-162
QualityFailure(qc, elapsed) ==
    [status |-> "error",
     error_message |-> Msg("Image quality check failed", <<>>),
     quality_issues |-> qc,
     processing_time_seconds |-> elapsed]

\* _detect_document_type, given what the capability call did (lines 213-228)
detect_document_type(outcome) ==
    IF ~outcome.ok THEN outcome ELSE Ok(Lower(Strip(outcome.val)))

\* Mutant: a type without a prompt is passed on to the capability.
PromptMissing_never(prompt) == FALSE

\* not prompt (line 239)
PromptMissing(prompt) == prompt = None \/ prompt[1] = ""

\* _extract_document_info after the prompt was found, given what the
\* capability call did (lines 242-265); 92 is the confidence score 0.92.
extract_document_info(dt, outcome) ==
    IF ~outcome.ok THEN outcome
    ELSE LET extracted_data == outcome.val
             validation_result == validate_extracted_data(dt, extracted_data)
         IN  IF ~validation_result.ok THEN validation_result
             ELSE Ok([extracted_data |-> extracted_data,
                      confidence_score |-> 92,
                      validation_result |-> validation_result.val])

\* Mutant: an unreasonable date does not end the run.
DateRejected_never(date_validation) == FALSE

\* not date_validation["is_reasonable"] (line 174)
DateRejected(date_validation) == ~date_validation.is_reasonable

\* lines 175-180
DateFailure(date_validation, elapsed) ==
    [status |-> "error",
     error_message |-> Msg("Date validation failed", <<>>),
     date_issues |-> date_validation.issues,
     processing_time_seconds |-> elapsed]

\* _validate_extracted_info (lines 267-282): the same dict whatever it is given
validate_extracted_info(info, dt) ==
    [is_valid |-> TRUE, missing_fields |-> <<>>, compliance_check |-> "passed"]

\* lines 189-199
Success(dt, info, validation_result, qc, elapsed) ==
    [status |-> "success",
     document_type |-> dt,
     extracted_info |-> info,
     validation_result |-> validation_result,
     quality_check |-> qc,
     processing_metrics |->
         [processing_time_seconds |-> elapsed,
          confidence_score |-> info.confidence_score]]

\* Mutant: the handler is "except ValueError".
Caught_ValueError(cls) == IsInstance(cls, "ValueError")

\* except Exception (line 201)
Caught(cls) == IsInstance(cls, "Exception")

\* Mutant: the message of the Failure tells how long the run took.
GenericFailure_timed(exc, elapsed) ==
    [status |-> "error",
     error_message |-> Msg(exc.text, elapsed),
     processing_time_seconds |-> elapsed]

\* lines 202-206
GenericFailure(exc, elapsed) ==
    [status |-> "error",
     error_message |-> StrOfExc(exc),
     processing_time_seconds |-> elapsed]

Elapsed(r) == now - start_time[r]

\* Mutant: the result is kept in one place that every run writes.
Return_shared(r, d) ==
    /\ result' = [q \in Runs |-> IF q = r \/ pc[q] = "done" THEN d ELSE result[q]]
    /\ pc' = [pc EXCEPT ![r] = "done"]
    /\ UNCHANGED escaped

\* process_kyc_document returns d.
Return(r, d) ==
    /\ result' = [result EXCEPT ![r] = d]
    /\ pc' = [pc EXCEPT ![r] = "done"]
    /\ UNCHANGED escaped

\* An exception is raised inside the try block of process_kyc_document.
Except(r, exc) ==
    IF Caught(exc.cls)
    THEN Return(r, GenericFailure(exc, Elapsed(r)))
    ELSE /\ escaped' = [escaped EXCEPT ![r] = TRUE]
         /\ pc' = [pc EXCEPT ![r] = "done"]
         /\ UNCHANGED result

Goto(r, stage) ==
    /\ pc' = [pc EXCEPT ![r] = stage]
    /\ UNCHANGED <<result, escaped>>

Called(r, what) == calls' = [calls EXCEPT ![r] = Append(@, what)]

----------------------------------------------------------------------------
(* What the collaborators may do *)

CapabilityError == Raise("CapabilityError", "model request failed", <<>>)

\* len(image_data); open() itself may fail
ImageReads ==
    {Ok(n) : n \in {1, MaxImageBytes, MaxImageBytes + 1}}
    \cup {Raise("FileNotFoundError", "No such file or directory", <<>>)}

Flags == <<"centered", "clear", "fully_visible">>

\* Every assessment holding some of the three flags, each "yes" or "no", and
\* two with other content.
Assessments ==
    {SelectSeq([i \in 1..3 |-> <<Flags[i], f[i]>>], LAMBDA kv : kv[2] # <<>>) :
        f \in [1..3 -> {<<>>, YES, NO}]}
    \cup { << <<"centered", YES>>, <<"clear", <<"m", "a", "y", "b", "e">> >>, <<"fully_visible", YES>> >>,
           << <<"centered", YES>>, <<"clear", YES>>, <<"fully_visible", YES>>, <<"glare", NO>> >> }

QualityOutcomes ==
    {Ok(Text("object", a)) : a \in Assessments}
    \cup {Ok(Text("invalid", <<>>)), Ok(Text("array", <<>>)), CapabilityError}

ClassifyOutcomes ==
    {Ok(s) : s \in {LICENSE, <<" ", "L", "i", "c", "e", "n", "s", "e", "\n">>,
                    PASSPORT, UTILITY_BILL, INVOICE, <<>>}}
    \cup {CapabilityError}

\* Dates of birth an extraction may hold, relative to the current date.
BirthDates(t) ==
    {Fmt(t[1] - 30, 1, 1), Fmt(t[1] - 17, 1, 1), Fmt(t[1] - 18, t[2], t[3]),
     Fmt(t[1] + 1, 1, 1), <<"n", "o", "t", "-", "a", "-", "d", "a", "t", "e">>}

KeyChoices(dt) ==
    LET req == get_required_fields(dt)
    IN  {req, SubSeq(req, 1, Len(req) - 1), SelectSeq(req, LAMBDA k : k # "date_of_birth"),
         <<>>, <<"date_of_birth">>, req \o SubSeq(ExtraKeys, 1, MaxExtra)}

ExtractedDicts(dt, t) ==
    {[i \in 1..Len(ks) |-> <<ks[i], IF ks[i] = "date_of_birth" THEN dob ELSE <<"x">> >>] :
        ks \in KeyChoices(dt), dob \in BirthDates(t)}

ExtractOutcomes(dt, t) ==
    {Ok(Text("object", d)) : d \in ExtractedDicts(dt, t)}
    \cup {Ok(Text(k, <<>>)) : k \in {"invalid", "array", "number"}}
    \cup {CapabilityError}

----------------------------------------------------------------------------
(* process_kyc_document, stage by stage *)

InitPipeline ==
    /\ pc = [r \in Runs |-> "idle"]
    /\ start_time = [r \in Runs |-> 0]
    /\ image_size = [r \in Runs |-> 0]
    /\ quality_check = [r \in Runs |-> NoAssessment]
    /\ doc_type = [r \in Runs |-> <<>>]
    /\ extracted_info = [r \in Runs |-> NoInfo]
    /\ calls = [r \in Runs |-> <<>>]
    /\ result = [r \in Runs |-> NoResult]
    /\ escaped = [r \in Runs |-> FALSE]
    /\ responses = [r \in Runs |-> NoResponses]
    /\ registry = document_configs
    /\ now = 0

\* line 140
Start(r) ==
    /\ pc[r] = "idle"
    /\ start_time' = [start_time EXCEPT ![r] = now]
    /\ pc' = [pc EXCEPT ![r] = "load"]
    /\ UNCHANGED <<image_size, quality_check, doc_type, extracted_info, calls,
                   result, escaped, responses, now, today, registry,
                   v_doc_type, v_payload, v_out, d_str, d_out>>

\* lines 145-152
LoadImage(r) ==
    /\ pc[r] = "load"
    /\ \E read \in ImageReads :
         IF ~read.ok
         THEN Except(r, read.exc) /\ UNCHANGED image_size
         ELSE /\ image_size' = [image_size EXCEPT ![r] = read.val]
              /\ IF ImageTooLarge(read.val)
                 THEN Except(r, [cls |-> "ValueError",
                                 text |-> "Image file is too large. Please use an image smaller than 20MB",
                                 arg |-> <<>>])
                 ELSE Goto(r, "quality")
    /\ UNCHANGED <<start_time, quality_check, doc_type, extracted_info, calls,
                   responses, now, today, registry, v_doc_type, v_payload, v_out, d_str, d_out>>

\* lines 154-162
QualityStage(r) ==
    /\ pc[r] = "quality"
    /\ \E outcome \in QualityOutcomes :
         LET qc == validate_image_quality(outcome)
         IN  /\ Called(r, "assess_quality")
             /\ responses' = [responses EXCEPT ![r].quality = Some(outcome)]
             /\ IF ~qc.ok
                THEN Except(r, qc.exc) /\ UNCHANGED quality_check
                ELSE /\ quality_check' = [quality_check EXCEPT ![r] = qc.val]
                     /\ LET values == AssessmentValues(qc.val)
                        IN  IF ~values.ok THEN Except(r, values.exc)
                            ELSE IF ~AllYes(values.val)
                            THEN Return(r, QualityFailure(qc.val, Elapsed(r)))
                            ELSE Goto(r, "classify")
    /\ UNCHANGED <<start_time, image_size, doc_type, extracted_info, now, today, registry,
                   v_doc_type, v_payload, v_out, d_str, d_out>>

\* line 165
ClassifyStage(r) ==
    /\ pc[r] = "classify"
    /\ \E outcome \in ClassifyOutcomes :
         LET dt == detect_document_type(outcome)
         IN  /\ Called(r, "classify")
             /\ responses' = [responses EXCEPT ![r].classify = Some(outcome)]
             /\ IF ~dt.ok
                THEN Except(r, dt.exc) /\ UNCHANGED doc_type
                ELSE doc_type' = [doc_type EXCEPT ![r] = dt.val] /\ Goto(r, "extract")
    /\ UNCHANGED <<start_time, image_size, quality_check, extracted_info, now, today, registry,
                   v_doc_type, v_payload, v_out, d_str, d_out>>

\* line 168 and lines 238-265
ExtractStage(r) ==
    /\ pc[r] = "extract"
    /\ IF PromptMissing(get_document_prompt(doc_type[r]))
       THEN /\ Except(r, [cls |-> "ValueError",
                          text |-> "Unsupported document type: ",
                          arg |-> doc_type[r]])
            /\ UNCHANGED <<calls, responses, extracted_info>>
       ELSE \E outcome \in ExtractOutcomes(doc_type[r], today) :
              LET info == extract_document_info(doc_type[r], outcome)
              IN  /\ Called(r, "extract")
                  /\ responses' = [responses EXCEPT ![r].extract = Some(outcome)]
                  /\ IF ~info.ok
                     THEN Except(r, info.exc) /\ UNCHANGED extracted_info
                     ELSE /\ extracted_info' = [extracted_info EXCEPT ![r] = info.val]
                          /\ Goto(r, "date")
    /\ UNCHANGED <<start_time, image_size, quality_check, doc_type, now, today, registry,
                   v_doc_type, v_payload, v_out, d_str, d_out>>

\* Mutant: the date step is left out when there is no date_of_birth key.
date_step_optional(extracted_data, t) ==
    LET parsed == json_loads(extracted_data)
    IN  IF ~parsed.ok
        THEN (IF IsInstance(parsed.exc.cls, "JSONDecodeError")
              THEN [step |-> "skip"]
              ELSE [step |-> "raise", exc |-> parsed.exc])
        ELSE IF parsed.val.type # "dict"
        THEN [step |-> "raise",
              exc |-> [cls |-> "AttributeError",
                       text |-> "object has no attribute 'get'",
                       arg |-> <<>>]]
        ELSE IF ~DictHas(parsed.val.obj, "date_of_birth")
        THEN [step |-> "skip"]
        ELSE LET date_validation ==
                     validate_date_reasonability(
                         DictGet(parsed.val.obj, "date_of_birth", <<>>), t)
             IN  IF ~date_validation.ok
                 THEN [step |-> "checked_raise", exc |-> date_validation.exc]
                 ELSE [step |-> "checked", date_validation |-> date_validation.val]

\* Mutant: the date step without "except json.JSONDecodeError: pass".
date_step_raising(extracted_data, t) ==
    LET parsed == json_loads(extracted_data)
    IN  IF ~parsed.ok
        THEN [step |-> "raise", exc |-> parsed.exc]
        ELSE IF parsed.val.type # "dict"
        THEN [step |-> "raise",
              exc |-> [cls |-> "AttributeError",
                       text |-> "object has no attribute 'get'",
                       arg |-> <<>>]]
        ELSE LET date_validation ==
                     validate_date_reasonability(
                         DictGet(parsed.val.obj, "date_of_birth", <<>>), t)
             IN  IF ~date_validation.ok
                 THEN [step |-> "checked_raise", exc |-> date_validation.exc]
                 ELSE [step |-> "checked", date_validation |-> date_validation.val]

\* The date step on extracted_data (lines 171-182): "skip" when json.loads
\* raises JSONDecodeError, else what .get or the date check raises, else the
\* outcome of the date check.
date_step(extracted_data, t) ==
    LET parsed == json_loads(extracted_data)
    IN  IF ~parsed.ok
        THEN (IF IsInstance(parsed.exc.cls, "JSONDecodeError")
              THEN [step |-> "skip"]
              ELSE [step |-> "raise", exc |-> parsed.exc])
        ELSE IF parsed.val.type # "dict"
        THEN [step |-> "raise",
              exc |-> [cls |-> "AttributeError",
                       text |-> "object has no attribute 'get'",
                       arg |-> <<>>]]
        ELSE LET date_validation ==
                     validate_date_reasonability(
                         DictGet(parsed.val.obj, "date_of_birth", <<>>), t)
             IN  IF ~date_validation.ok
                 THEN (IF IsInstance(date_validation.exc.cls, "JSONDecodeError")
                       THEN [step |-> "checked_skip"]
                       ELSE [step |-> "checked_raise", exc |-> date_validation.exc])
                 ELSE [step |-> "checked", date_validation |-> date_validation.val]

\* lines 170-182
DateStage(r) ==
    /\ pc[r] = "date"
    /\ \E s \in {date_step(extracted_info[r].extracted_data, today)} :
         /\ IF s.step \in {"checked", "checked_skip", "checked_raise"}
            THEN Called(r, "date_check")
            ELSE UNCHANGED calls
         /\ CASE s.step \in {"skip", "checked_skip"} -> Goto(r, "validate")
              [] s.step \in {"raise", "checked_raise"} -> Except(r, s.exc)
              [] s.step = "checked" ->
                   IF DateRejected(s.date_validation)
                   THEN Return(r, DateFailure(s.date_validation, Elapsed(r)))
                   ELSE Goto(r, "validate")
    /\ UNCHANGED <<start_time, image_size, quality_check, doc_type, extracted_info,
                   responses, now, today, registry, v_doc_type, v_payload, v_out, d_str, d_out>>

\* lines 184-199
ValidationStage(r) ==
    /\ pc[r] = "validate"
    /\ LET validation_result == validate_extracted_info(extracted_info[r], doc_type[r])
       IN  /\ Called(r, "field_validation")
           /\ Return(r, Success(doc_type[r], extracted_info[r], validation_result,
                                quality_check[r], Elapsed(r)))
    /\ UNCHANGED <<start_time, image_size, quality_check, doc_type, extracted_info,
                   responses, now, today, registry, v_doc_type, v_payload, v_out, d_str, d_out>>

\* time.time() advances
Tick ==
    /\ now < MaxTime
    /\ now' = now + 1
    /\ UNCHANGED <<pc, start_time, image_size, quality_check, doc_type, extracted_info,
                   calls, result, escaped, responses, today, registry,
                   v_doc_type, v_payload, v_out, d_str, d_out>>

Step(r) ==
    \/ Start(r)
    \/ LoadImage(r)
    \/ QualityStage(r)
    \/ ClassifyStage(r)
    \/ ExtractStage(r)
    \/ DateStage(r)
    \/ ValidationStage(r)

\* process_kyc_document as one function (lines 136-206): the dict a call
\* returns at current date t after the time elapsed, given what reading the
\* image did and what each capability call does when it is made. Every
\* exception is taken to be an Exception, which line 201 catches.
process_kyc_document(read, resp, t, elapsed) ==
    IF ~read.ok THEN GenericFailure(read.exc, elapsed)
    ELSE IF ImageTooLarge(read.val)
    THEN GenericFailure([cls |-> "ValueError",
                         text |-> "Image file is too large. Please use an image smaller than 20MB",
                         arg |-> <<>>], elapsed)
    ELSE LET qc == validate_image_quality(resp.quality[1])
         IN  IF ~qc.ok THEN GenericFailure(qc.exc, elapsed)
             ELSE LET values == AssessmentValues(qc.val)
                  IN  IF ~values.ok THEN GenericFailure(values.exc, elapsed)
                      ELSE IF ~AllYes(values.val) THEN QualityFailure(qc.val, elapsed)
                      ELSE LET dt == detect_document_type(resp.classify[1])
                           IN  IF ~dt.ok THEN GenericFailure(dt.exc, elapsed)
                               ELSE IF PromptMissing(get_document_prompt(dt.val))
                               THEN GenericFailure([cls |-> "ValueError",
                                                    text |-> "Unsupported document type: ",
                                                    arg |-> dt.val], elapsed)
                               ELSE LET info == extract_document_info(dt.val, resp.extract[1])
                                    IN  IF ~info.ok THEN GenericFailure(info.exc, elapsed)
                                        ELSE LET s == date_step(info.val.extracted_data, t)
                                             IN  CASE s.step \in {"raise", "checked_raise"} ->
                                                        GenericFailure(s.exc, elapsed)
                                                   [] s.step = "checked" /\ DateRejected(s.date_validation) ->
                                                        DateFailure(s.date_validation, elapsed)
                                                   [] OTHER ->
                                                        Success(dt.val, info.val,
                                                                validate_extracted_info(info.val, dt.val),
                                                                qc.val, elapsed)

\* The images and capability responses of the runs that go on side by side.
ScenarioSizes == {0, 1, MaxImageBytes + 1}

ScenarioQuality ==
    {Ok(Text("object", << <<"centered", YES>>, <<"clear", YES>>, <<"fully_visible", YES>> >>)),
     Ok(Text("object", << <<"centered", YES>>, <<"clear", NO>>, <<"fully_visible", YES>> >>)),
     CapabilityError}

ScenarioClassify == {Ok(LICENSE), Ok(UTILITY_BILL), Ok(INVOICE), CapabilityError}

ScenarioExtract(dt, t) ==
    {Ok(Text("object", d)) :
        d \in {e \in ExtractedDicts(dt, t) :
                  /\ DictKeys(e) = get_required_fields(dt)
                  /\ DictGet(e, "date_of_birth", Fmt(t[1] - 30, 1, 1))
                         \in {Fmt(t[1] - 30, 1, 1), Fmt(t[1] - 17, 1, 1)}}}
    \cup {Ok(Text("invalid", <<>>)), Ok(Text("array", <<>>)), CapabilityError}

InScenario(r) ==
    /\ image_size[r] \in ScenarioSizes
    /\ responses[r].quality \in {None} \cup {Some(o) : o \in ScenarioQuality}
    /\ responses[r].classify \in {None} \cup {Some(o) : o \in ScenarioClassify}
    /\ responses[r].extract \in {None} \cup {Some(o) : o \in ScenarioExtract(doc_type[r], today)}

\* A step of run r, the other runs being wherever they are.
ConcurrentStep(r) == Step(r) /\ InScenario(r)'

----------------------------------------------------------------------------
(* validate_extracted_data and _validate_date_reasonability applied alone *)

InitValidate ==
    /\ InitPipeline
    /\ today \in Todays
    /\ v_doc_type \in DocTokens
    /\ v_payload \in Payloads(v_doc_type)
    /\ v_out = None
    /\ d_str = <<>>
    /\ d_out = None

Validate ==
    /\ v_out = None
    /\ v_out' = Some(validate_extracted_data(v_doc_type, v_payload))
    /\ UNCHANGED <<pipeVars, today, v_doc_type, v_payload, d_str, d_out>>

InitDate ==
    /\ InitPipeline
    /\ today \in Todays
    /\ d_str \in DateStrings(today)
    /\ d_out = None
    /\ v_doc_type = <<>>
    /\ v_payload = Text("invalid", <<>>)
    /\ v_out = None

DateCheck ==
    /\ d_out = None
    /\ d_out' = Some(validate_date_reasonability(d_str, today))
    /\ UNCHANGED <<pipeVars, today, v_doc_type, v_payload, v_out, d_str>>

----------------------------------------------------------------------------
(* Specifications *)

\* One invocation of process_kyc_document.
Init ==
    /\ InitPipeline
    /\ today \in Todays
    /\ v_doc_type = <<>>
    /\ v_payload = Text("invalid", <<>>)
    /\ v_out = None
    /\ d_str = <<>>
    /\ d_out = None

Next ==
    \/ Step("r1")
    \/ Tick

Spec == Init /\ [][Next]_vars

\* The same, the invocation going on whenever it can: the code is synchronous
\* and each of its steps, a capability call included, returns or raises.
SpecLive == Init /\ [][Next]_vars /\ WF_vars(Step("r1"))

\* validate_extracted_data on every document type token and payload.
NextValidate == Validate

SpecValidate == InitValidate /\ [][NextValidate]_vars

\* _validate_date_reasonability on every date string and current date.
NextDate == DateCheck

SpecDate == InitDate /\ [][NextDate]_vars

\* Invocations of process_kyc_document on one KYCProcessor, their stages
\* interleaved in any order.
NextConcurrent ==
    \/ \E r \in Runs : ConcurrentStep(r)
    \/ Tick

SpecConcurrent == Init /\ [][NextConcurrent]_vars

----------------------------------------------------------------------------
(* Properties of process_kyc_document *)

Range(s) == {s[i] : i \in 1..Len(s)}

\* Position of element f in sequence s.
IndexIn(s, f) == CHOOSE i \in 1..Len(s) : s[i] = f

SizeMessage == "Image file is too large. Please use an image smaller than 20MB"

\* The elapsed time a finished run reports, if it reports one.
ReportedTime(res) ==
    IF res.status = "success"
    THEN (IF "processing_metrics" \in DOMAIN res
             /\ "processing_time_seconds" \in DOMAIN res.processing_metrics
          THEN Some(res.processing_metrics.processing_time_seconds) ELSE None)
    ELSE (IF "processing_time_seconds" \in DOMAIN res
          THEN Some(res.processing_time_seconds) ELSE None)

\* The capability call of run r named by field f raised.
CapabilityRaised(r, f) == responses[r][f] # None /\ ~responses[r][f][1].ok

\* What holds of every run in every state: no exception has left
\* process_kyc_document; a result exists exactly when the run has returned;
\* the result is a Success or a Failure carrying the elapsed time; and a
\* classification or extraction call that raised gave the Failure carrying
\* the error's message.
OneResultWithTime ==
    \A r \in Runs :
        /\ ~escaped[r]
        /\ (pc[r] = "done") = (result[r] # NoResult)
        /\ pc[r] = "done" =>
             /\ result[r].status \in {"success", "error"}
             /\ ReportedTime(result[r]) # None
             /\ ReportedTime(result[r])[1] \in 0..(now - start_time[r])
             /\ \A f \in {"classify", "extract"} :
                  CapabilityRaised(r, f) =>
                      /\ result[r].status = "error"
                      /\ result[r].error_message = StrOfExc(responses[r][f][1].exc)

\* C1: every invocation of process_kyc_document ends by returning one dict
\* whose status is "success" or "error" and which carries the elapsed time; a
\* classification or extraction call that raises gives an "error" result whose
\* message is the error's message; no exception leaves process_kyc_document.
\* Every started run returns, given that each capability call returns or raises.
C1_AlwaysOneResultWithTime ==
    /\ []OneResultWithTime
    /\ \A r \in Runs : (pc[r] = "load") ~> (pc[r] = "done")

\* C1 witness: a run whose classification call raised has returned the Failure.
C1_Witness ==
    \E r \in Runs :
        /\ pc[r] = "done"
        /\ CapabilityRaised(r, "classify")
        /\ result[r].status = "error"
        /\ result[r].error_message = Msg("model request failed", <<>>)

\* The assessment the quality capability returned to run r, when it returned
\* a JSON object.
ReturnedAssessment(r) ==
    IF /\ responses[r].quality # None
       /\ responses[r].quality[1].ok
       /\ responses[r].quality[1].val.kind = "object"
    THEN Some(responses[r].quality[1].val.obj)
    ELSE None

\* Assessment a holds one of the three flags with a value other than "yes".
SomeFlagNotYes(a) ==
    \E i \in 1..Len(a) : a[i][1] \in Range(Flags) /\ a[i][2] # YES

\* C2: when the assessment holds a flag centered, clear or fully_visible whose
\* value is not "yes", the run returns the Failure "Image quality check failed"
\* whose quality_issues is that assessment, unchanged.
C2_QualityFailureCarriesAssessment ==
    \A r \in Runs :
        (ReturnedAssessment(r) # None /\ SomeFlagNotYes(ReturnedAssessment(r)[1])) =>
            /\ pc[r] = "done"
            /\ result[r].status = "error"
            /\ result[r].error_message = Msg("Image quality check failed", <<>>)
            /\ "quality_issues" \in DOMAIN result[r]
            /\ result[r].quality_issues.type = "dict"
            /\ result[r].quality_issues.obj = ReturnedAssessment(r)[1]

\* C2 witness: the assessment with clear = "no" and the other flags "yes" came
\* back as the quality_issues of the Failure.
C2_Witness ==
    \E r \in Runs :
        /\ ReturnedAssessment(r) =
               Some(<< <<"centered", YES>>, <<"clear", NO>>, <<"fully_visible", YES>> >>)
        /\ pc[r] = "done"
        /\ DictGet(result[r].quality_issues.obj, "clear", <<>>) = NO

\* The classification capability returned a token to run r that, trimmed and
\* lower-cased, is none of the five registered document types.
UnregisteredToken(r) ==
    /\ responses[r].classify # None
    /\ responses[r].classify[1].ok
    /\ Lower(Strip(responses[r].classify[1].val)) \notin DocumentType

\* C3: when quality passed and the classification token, trimmed and
\* lower-cased, has no registry entry, the extraction capability is never
\* invoked in that run, and the run returns a Failure whose message is
\* "Unsupported document type: " followed by the token.
C3_UnsupportedTypeFailsBeforeExtraction ==
    \A r \in Runs :
        UnregisteredToken(r) =>
            /\ "extract" \notin Range(calls[r])
            /\ responses[r].extract = None
            /\ pc[r] \in {"extract", "done"}
            /\ pc[r] = "done" =>
                 /\ result[r].status = "error"
                 /\ result[r].error_message =
                        Msg("Unsupported document type: ",
                            Lower(Strip(responses[r].classify[1].val)))

\* C3 witness: the token "invoice" ended the run in that Failure.
C3_Witness ==
    \E r \in Runs :
        /\ responses[r].classify = Some(Ok(INVOICE))
        /\ pc[r] = "done"
        /\ result[r].error_message = Msg("Unsupported document type: ", INVOICE)
        /\ calls[r] = <<"assess_quality", "classify">>

\* C4: an image of more than 20 MiB ends the run in a Failure with the size
\* message and no capability (quality, classification, extraction) is invoked;
\* an image of exactly 20 MiB passes this check.
C4_OversizedImageRejectedBeforeAnyCall ==
    \A r \in Runs :
        /\ image_size[r] > 20 * 1024 * 1024 =>
             /\ pc[r] = "done"
             /\ result[r].status = "error"
             /\ result[r].error_message = Msg(SizeMessage, <<>>)
             /\ calls[r] = <<>>
             /\ responses[r] = NoResponses
        /\ (image_size[r] = 20 * 1024 * 1024 /\ pc[r] = "done") =>
             /\ result[r].status = "error" =>
                    result[r].error_message # Msg(SizeMessage, <<>>)
             /\ calls[r] # <<>>

\* C4 witness: a run on an image one byte over 20 MiB has returned.
C4_Witness ==
    \E r \in Runs :
        /\ image_size[r] = 20 * 1024 * 1024 + 1
        /\ pc[r] = "done"
        /\ result[r].status = "error"

\* C4, second case: a run on an image of exactly 20 MiB went on to the
\* quality stage.
C4_ExactLimitReachesQuality ==
    \E r \in Runs : image_size[r] = 20 * 1024 * 1024 /\ pc[r] = "quality"

\* C5: in every Success, validation_result reports the required fields of the
\* classified type against the extracted output: is_valid is true exactly when
\* the output parses as an object holding every required field, and
\* missing_fields lists the required fields that are absent.
C5_SuccessValidationReflectsFields ==
    \A r \in Runs :
        (pc[r] = "done" /\ result[r].status = "success") =>
            LET data == result[r].extracted_info.extracted_data
                req == get_required_fields(result[r].document_type)
                absent == {f \in Range(req) : data.kind # "object" \/ ~DictHas(data.obj, f)}
            IN  /\ result[r].validation_result.is_valid = (data.kind = "object" /\ absent = {})
                /\ data.kind = "object" =>
                       Range(result[r].validation_result.missing_fields) = absent

\* The object the extraction capability returned to run r, when it returned one.
ExtractedObject(r) ==
    IF /\ responses[r].extract # None
       /\ responses[r].extract[1].ok
       /\ responses[r].extract[1].val.kind = "object"
    THEN Some(responses[r].extract[1].val.obj)
    ELSE None

\* What the date check says of the date_of_birth of object obj.
BirthDateCheck(obj) ==
    validate_date_reasonability(DictGet(obj, "date_of_birth", <<>>), today).val

\* C6: when the extracted output parses as an object and the date check finds
\* the date of birth not reasonable, the run ends at the date stage with the
\* Failure "Date validation failed" whose date_issues is the issue list of the
\* check; the field validation stage is not run and no Success is built.
C6_UnreasonableDateEndsRun ==
    \A r \in Runs :
        (/\ ExtractedObject(r) # None
         /\ pc[r] \in {"validate", "done"}
         /\ ~BirthDateCheck(ExtractedObject(r)[1]).is_reasonable) =>
            /\ pc[r] = "done"
            /\ result[r].status = "error"
            /\ result[r].error_message = Msg("Date validation failed", <<>>)
            /\ "date_issues" \in DOMAIN result[r]
            /\ result[r].date_issues = BirthDateCheck(ExtractedObject(r)[1]).issues
            /\ "field_validation" \notin Range(calls[r])
            /\ calls[r] = <<"assess_quality", "classify", "extract", "date_check">>

\* C6 witness: an extraction with every license field and a date of birth 17
\* years back ended the run in the date Failure.
C6_Witness ==
    \E r \in Runs :
        /\ pc[r] = "done"
        /\ doc_type[r] = LICENSE
        /\ ExtractedObject(r) # None
        /\ DictGet(ExtractedObject(r)[1], "date_of_birth", <<>>) = Fmt(today[1] - 17, 1, 1)
        /\ result[r].error_message = Msg("Date validation failed", <<>>)
        /\ Some("Age below 18") \in Range(result[r].date_issues)

\* C10: the quality gate lets a run go on to classification only if each of
\* centered, clear and fully_visible is present in the assessment and is "yes".
C10_GatePassesOnlyWithAllThreeFlags ==
    \A r \in Runs :
        (pc[r] = "classify" \/ "classify" \in Range(calls[r])) =>
            /\ quality_check[r].type = "dict"
            /\ \A i \in 1..Len(Flags) :
                   /\ DictHas(quality_check[r].obj, Flags[i])
                   /\ DictGet(quality_check[r].obj, Flags[i], <<>>) = YES

\* The quality capability call of run r raised, or returned content that is
\* no JSON.
QualityCallFailed(r) ==
    /\ responses[r].quality # None
    /\ \/ ~responses[r].quality[1].ok
       \/ responses[r].quality[1].val.kind = "invalid"

\* C11: when the quality capability call raises or returns content that
\* cannot be parsed, the quality stage yields the assessment with centered,
\* clear and fully_visible all "no", and the run returns the Failure "Image
\* quality check failed" with that assessment as quality_issues, not the
\* Failure carrying the error's message; nothing further is invoked.
C11_FailedQualityCallGivesAllFailing ==
    \A r \in Runs :
        QualityCallFailed(r) =>
            /\ quality_check[r] =
                   PyDict(<< <<"centered", NO>>, <<"clear", NO>>, <<"fully_visible", NO>> >>)
            /\ pc[r] = "done"
            /\ ~escaped[r]
            /\ result[r].status = "error"
            /\ result[r].error_message = Msg("Image quality check failed", <<>>)
            /\ "quality_issues" \in DOMAIN result[r]
            /\ result[r].quality_issues = quality_check[r]
            /\ calls[r] = <<"assess_quality">>

\* C11 witness: the quality capability call raised and the run returned the
\* quality Failure with the all-"no" assessment.
C11_Witness ==
    \E r \in Runs :
        /\ responses[r].quality = Some(CapabilityError)
        /\ pc[r] = "done"
        /\ result[r].error_message = Msg("Image quality check failed", <<>>)
        /\ DictValues(result[r].quality_issues.obj) = <<NO, NO, NO>>

\* C11, second case: content that is no JSON gave the same Failure.
C11_UnparsableContent ==
    \E r \in Runs :
        /\ responses[r].quality = Some(Ok(Text("invalid", <<>>)))
        /\ pc[r] = "done"
        /\ result[r].error_message = Msg("Image quality check failed", <<>>)
        /\ DictValues(result[r].quality_issues.obj) = <<NO, NO, NO>>

\* The extraction capability returned text to run r that is no JSON.
ExtractedUnparsable(r) ==
    /\ responses[r].extract # None
    /\ responses[r].extract[1].ok
    /\ responses[r].extract[1].val.kind = "invalid"

\* C12: when the extracted output is no JSON, the date check is not run and
\* the date stage produces no Failure: the run goes from extraction to the
\* validation step and returns the Success built from it.
C12_UnparsableOutputSkipsDateCheck ==
    \A r \in Runs :
        ExtractedUnparsable(r) =>
            /\ pc[r] \in {"date", "validate", "done"}
            /\ "date_check" \notin Range(calls[r])
            /\ ~escaped[r]
            /\ pc[r] = "done" =>
                 /\ result[r].status = "success"
                 /\ calls[r] = <<"assess_quality", "classify", "extract", "field_validation">>
                 /\ result[r].extracted_info.extracted_data = responses[r].extract[1].val

\* C12 witness: a run whose extraction returned text that is no JSON has
\* returned a Success without the date check having run.
C12_Witness ==
    \E r \in Runs :
        /\ ExtractedUnparsable(r)
        /\ pc[r] = "done"
        /\ result[r].status = "success"
        /\ "date_check" \notin Range(calls[r])

\* The capabilities and stages in the order process_kyc_document reaches them.
StageOrder == <<"assess_quality", "classify", "extract", "date_check", "field_validation">>

\* Sequence c names stages in that order, none of them twice.
InStageOrder(c) ==
    /\ \A i \in 1..Len(c) : c[i] \in Range(StageOrder)
    /\ \A i, j \in 1..Len(c) :
           i < j => IndexIn(StageOrder, c[i]) < IndexIn(StageOrder, c[j])

\* The capability named by field f has returned to run r without raising.
CapabilityReturned(r, f) == responses[r][f] # None /\ responses[r][f][1].ok

\* The quality capability returned to run r an assessment all of whose values
\* are "yes".
GatePassed(r) ==
    /\ ReturnedAssessment(r) # None
    /\ \A i \in 1..Len(ReturnedAssessment(r)[1]) : ReturnedAssessment(r)[1][i][2] = YES

\* A run that has called the capabilities and stages c may have called them
\* only under these conditions.
StagesInOrder ==
    \A r \in Runs :
        LET c == calls[r]
            called == Range(c)
        IN  /\ InStageOrder(c)
            /\ c # <<>> => c[1] = "assess_quality"
            /\ \A f \in {"quality", "classify", "extract"} :
                   (responses[r][f] # None) =
                       ((CASE f = "quality" -> "assess_quality" [] OTHER -> f) \in called)
            /\ "classify" \in called => GatePassed(r)
            /\ "extract" \in called =>
                   /\ "classify" \in called
                   /\ CapabilityReturned(r, "classify")
                   /\ Lower(Strip(responses[r].classify[1].val)) \in DocumentType
            /\ (called \cap {"date_check", "field_validation"}) # {} =>
                   /\ "extract" \in called
                   /\ CapabilityReturned(r, "extract")
            /\ \A f \in {"classify", "extract"} :
                   CapabilityRaised(r, f) => pc[r] = "done" /\ c[Len(c)] = f
            /\ (pc[r] = "done" /\ result[r].status = "error") =>
                   "field_validation" \notin called
            /\ ("date_check" \in called /\ "field_validation" \in called) =>
                   /\ ExtractedObject(r) # None
                   /\ BirthDateCheck(ExtractedObject(r)[1]).is_reasonable
            /\ "field_validation" \in called => result[r].status = "success"

\* A run that has returned invokes nothing more.
NothingAfterReturn ==
    \A r \in Runs : pc[r] = "done" => (pc'[r] = "done" /\ calls'[r] = calls[r])

\* C15: the quality capability is invoked first; classification only after
\* the gate passed; extraction only after classification returned a token
\* with a registry entry; the date check and the validation step only after
\* extraction returned; nothing is invoked twice; a stage that fails ends the
\* run, and a run that has ended invokes nothing more.
C15_StagesOrderedAndShortCircuit ==
    /\ []StagesInOrder
    /\ [][NothingAfterReturn]_vars

\* C15 witness: the extraction capability raised as the third call of a run,
\* which returned a Failure without the date check or the validation step.
C15_Witness ==
    \E r \in Runs :
        /\ CapabilityRaised(r, "extract")
        /\ pc[r] = "done"
        /\ result[r].status = "error"
        /\ calls[r] = <<"assess_quality", "classify", "extract">>

\* C15, the whole order: a run went through all five.
C15_AllStagesRun ==
    \E r \in Runs : calls[r] = StageOrder /\ result[r].status = "success"

\* Result res without its timing fields.
Content(res) ==
    IF res.status = "success"
    THEN [res EXCEPT !.processing_metrics =
                         [confidence_score |-> res.processing_metrics.confidence_score]]
    ELSE [f \in DOMAIN res \ {"processing_time_seconds"} |-> res[f]]

\* C16: two runs that read the same image and got the same response from
\* each capability, at the same current date, return dicts that are equal
\* once processing_time_seconds is left out: status, document type, extracted
\* info, validation result, quality check, confidence score, error message
\* and issue lists.
C16_SameResponsesSameContent ==
    \A r, q \in Runs :
        (/\ pc[r] = "done" /\ pc[q] = "done"
         /\ image_size[r] = image_size[q]
         /\ responses[r] = responses[q]) =>
            /\ escaped[r] = escaped[q]
            /\ Content(result[r]) = Content(result[q])

\* C16 witness: two runs with the same responses returned Successes that
\* differ, and only in the time they took.
C16_Witness ==
    \E r, q \in Runs :
        /\ r # q
        /\ pc[r] = "done" /\ pc[q] = "done"
        /\ image_size[r] = image_size[q]
        /\ responses[r] = responses[q]
        /\ result[r].status = "success"
        /\ result[r] # result[q]
        /\ Content(result[r]) = Content(result[q])

\* C16, a Failure: the same for two runs whose date check rejected the date.
C16_SameFailure ==
    \E r, q \in Runs :
        /\ r # q
        /\ pc[r] = "done" /\ pc[q] = "done"
        /\ responses[r] = responses[q]
        /\ "date_issues" \in DOMAIN result[r]
        /\ "date_issues" \in DOMAIN result[q]
        /\ result[r].date_issues = result[q].date_issues

\* What reading the image did in run r.
ImageRead(r) ==
    CHOOSE read \in ImageReads :
        IF read.ok THEN image_size[r] = read.val ELSE image_size[r] = 0

\* C17: whatever the other runs do and however the stages interleave, a run
\* returns the content that process_kyc_document gives for its own image and
\* its own capability responses, and the registry the runs share stays the
\* table it was built as.
C17_RunsDoNotAffectOneAnother ==
    /\ \A r \in Runs :
          pc[r] = "done" =>
              /\ ~escaped[r]
              /\ Content(result[r]) =
                     Content(process_kyc_document(ImageRead(r), responses[r], today, 0))
    /\ registry = document_configs

\* C17 witness: two runs that went on during the same tick of the clock
\* returned, one a Success and the other a Failure.
C17_Witness ==
    \E r, q \in Runs :
        /\ pc[r] = "done" /\ pc[q] = "done"
        /\ start_time[r] = 0 /\ start_time[q] = 0
        /\ ReportedTime(result[r]) = Some(1)
        /\ ReportedTime(result[q]) = Some(1)
        /\ result[r].status = "success"
        /\ result[q].status = "error"
        /\ registry = document_configs

----------------------------------------------------------------------------
(* Properties of validate_extracted_data *)

\* The payload handed to validate_extracted_data is a key-value mapping,
\* given as a dict or as the text of a JSON object.
PayloadIsMapping == v_payload.kind = "object"

\* The required fields of a document type, read off the registry table.
RegistryFields(dt) ==
    LET i == CHOOSE k \in 1..Len(document_configs) : document_configs[k].key = dt
    IN  document_configs[i].required_fields

\* C7: for a supported document type and a parsed payload, missing_fields is
\* the required fields that are not keys of the payload, in registry order;
\* is_valid is true exactly when it is empty; values are not looked at; the
\* required and the provided fields are reported also when valid.
C7_MissingFieldsInRegistryOrder ==
    (v_out # None /\ v_doc_type \in DocumentType /\ PayloadIsMapping) =>
        LET req == RegistryFields(v_doc_type)
            keys == {v_payload.obj[i][1] : i \in 1..Len(v_payload.obj)}
        IN  /\ v_out[1].ok
            /\ LET out == v_out[1].val
                   missing == out.missing_fields
               IN  /\ Range(missing) = Range(req) \ keys
                   /\ \A i, j \in 1..Len(missing) :
                          i < j => IndexIn(req, missing[i]) < IndexIn(req, missing[j])
                   /\ out.is_valid = (missing = <<>>)
                   /\ out.validation_details.required_fields = req
                   /\ out.validation_details.provided_fields = DictKeys(v_payload.obj)

\* C7 witness: a license payload with an extra key and empty-string values
\* that lacks two required fields was validated, and they were reported in
\* registry order.
C7_Witness ==
    /\ v_out # None
    /\ v_doc_type = LICENSE
    /\ v_payload = Text("object", << <<"mrz_line", <<>> >>, <<"expiry_date", <<>> >>,
                                      <<"license_number", <<>> >>, <<"full_name", <<>> >> >>)
    /\ v_out[1].val.missing_fields = <<"date_of_birth", "state">>
    /\ ~v_out[1].val.is_valid

\* C7, valid case: a payload with every required field, all values empty, and
\* an extra key is valid.
C7_ValidWithExtras ==
    /\ v_out # None
    /\ v_doc_type = PASSPORT
    /\ Len(v_payload.obj) = Len(RegistryFields(PASSPORT)) + 1
    /\ v_payload.kind = "object"
    /\ \A i \in 1..Len(v_payload.obj) : v_payload.obj[i][2] = <<>>
    /\ v_out[1].val.is_valid

\* C13: for passport, license, national_id, utility_bill and bank_statement
\* the registry gives a non-empty required-field list and a prompt; for any
\* other token it gives no prompt and no fields, and validate_extracted_data
\* on that token returns is_valid false with the error "Unknown document
\* type: " followed by the token, whatever the payload is.
C13_RegistryHoldsTheFiveTypes ==
    /\ DocumentType = {PASSPORT, LICENSE, NATIONAL_ID, UTILITY_BILL, BANK_STATEMENT}
    /\ v_doc_type \in DocumentType =>
          /\ get_required_fields(v_doc_type) # <<>>
          /\ get_document_prompt(v_doc_type) # None
          /\ get_document_prompt(v_doc_type)[1] # ""
    /\ v_doc_type \notin DocumentType =>
          /\ get_document_prompt(v_doc_type) = None
          /\ v_out # None =>
                v_out[1] = Ok([is_valid |-> FALSE,
                               error |-> Msg("Unknown document type: ", v_doc_type)])

\* C13 witness: the token "invoice" with a payload holding every passport
\* field was answered with the unknown-document-type error.
C13_Witness ==
    /\ v_out # None
    /\ v_doc_type = INVOICE
    /\ v_payload.kind = "object"
    /\ Len(v_payload.obj) >= 5
    /\ ~v_out[1].val.is_valid
    /\ v_out[1].val.error = Msg("Unknown document type: ", INVOICE)

\* C13, other payloads: the same answer for a payload that is no JSON.
C13_UnknownTypeUnparsablePayload ==
    /\ v_out # None
    /\ v_doc_type = INVOICE
    /\ v_payload.kind = "invalid"
    /\ v_out[1].val.error = Msg("Unknown document type: ", INVOICE)

\* The payload handed to validate_extracted_data is text that is no JSON.
PayloadUnparsable == v_payload.type = "str" /\ v_payload.kind = "invalid"

\* The payload is a mapping that lacks a required field of document type dt.
PayloadLacksField(dt) ==
    /\ PayloadIsMapping
    /\ \E f \in Range(RegistryFields(dt)) :
           f \notin {v_payload.obj[i][1] : i \in 1..Len(v_payload.obj)}

\* C14: for a supported document type, text that is no JSON is answered with
\* is_valid false and the error "Invalid JSON format in extracted data" and
\* nothing else, so without missing_fields; a mapping that lacks a required
\* field is answered with a non-empty missing_fields and no error; and the
\* error is not the unknown-document-type error.
C14_UnparsableTextGivesFormatError ==
    (v_out # None /\ v_doc_type \in DocumentType) =>
        /\ PayloadUnparsable =>
              /\ v_out[1].ok
              /\ DOMAIN v_out[1].val = {"is_valid", "error"}
              /\ ~v_out[1].val.is_valid
              /\ v_out[1].val.error = Msg("Invalid JSON format in extracted data", <<>>)
              /\ v_out[1].val.error # Msg("Unknown document type: ", v_doc_type)
        /\ PayloadLacksField(v_doc_type) =>
              /\ v_out[1].ok
              /\ "error" \notin DOMAIN v_out[1].val
              /\ ~v_out[1].val.is_valid
              /\ v_out[1].val.missing_fields # <<>>

\* C14 witness: for a passport, text that is no JSON was answered with the
\* format error.
C14_Witness ==
    /\ v_out # None
    /\ v_doc_type = PASSPORT
    /\ PayloadUnparsable
    /\ v_out[1].val.error.text = "Invalid JSON format in extracted data"

\* C14, the outcome it differs from: the text of the empty JSON object was
\* answered with all five passport fields missing and no error.
C14_FieldsMissingOutcome ==
    /\ v_out # None
    /\ v_doc_type = PASSPORT
    /\ v_payload = Text("object", <<>>)
    /\ Len(v_out[1].val.missing_fields) = 5
    /\ "error" \notin DOMAIN v_out[1].val

\* C19: for a supported document type and any text payload,
\* validate_extracted_data returns an outcome and does not raise, and the
\* outcome has is_valid false when the text is not that of a JSON object: no
\* JSON at all, or a list, a number, a string or null.
C19_ValidatorTotalOnText ==
    (v_out # None /\ v_doc_type \in DocumentType /\ v_payload.type = "str") =>
        /\ v_out[1].ok
        /\ v_payload.kind # "object" => ~v_out[1].val.is_valid

----------------------------------------------------------------------------
(* Properties of _validate_date_reasonability *)

\* String s writes the calendar date <<y, m, d>> in the year-month-day form:
\* four digits, then month and day, each with or without its leading zero (a
\* one-digit day may also be padded with a space).
Writes(s, y, m, d) ==
    \E ms \in {Pad(m, 2)} \cup (IF m < 10 THEN {Pad(m, 1)} ELSE {}) :
        \E ds \in {Pad(d, 2)} \cup (IF d < 10 THEN {Pad(d, 1), <<" ">> \o Pad(d, 1)} ELSE {}) :
            s = Pad(y, 4) \o <<"-">> \o ms \o <<"-">> \o ds

\* The calendar dates that string s writes, the years being those within
\* reach of the current date t.
DatesWritten(s, t) ==
    LET years == {y \in (t[1] - MaxAge - 40)..(t[1] + MaxFuture + 1) :
                      Len(s) >= 4 /\ Pad(y, 4) = SubSeq(s, 1, 4)}
    IN  {date \in years \X (1..12) \X (1..31) :
            /\ date[3] <= (IF date[2] = 2
                           THEN (IF (date[1] % 4 = 0 /\ date[1] % 100 # 0) \/ date[1] % 400 = 0
                                 THEN 29 ELSE 28)
                           ELSE IF date[2] \in {4, 6, 9, 11} THEN 30 ELSE 31)
            /\ Writes(s, date[1], date[2], date[3])}

\* Age in whole years at date t of someone born on date b.
WholeYears(b, t) ==
    IF t[2] * 100 + t[3] < b[2] * 100 + b[3] THEN t[1] - b[1] - 1 ELSE t[1] - b[1]

\* Date b is later than the current date t.
InFuture(b, t) == b[1] * 10000 + b[2] * 100 + b[3] > t[1] * 10000 + t[2] * 100 + t[3]

\* C8: is_reasonable is true exactly when the string is a year-month-day date
\* that is not in the future and gives an age in whole years from 18 to 100,
\* both included; a string that is no such date gives is_reasonable false with
\* the single issue "Invalid date format".
C8_ReasonableIffAge18To100 ==
    d_out # None =>
        LET dates == DatesWritten(d_str, today)
        IN  /\ d_out[1].ok
            /\ d_out[1].val.is_reasonable =
                   (\E b \in dates : /\ ~InFuture(b, today)
                                     /\ WholeYears(b, today) >= 18
                                     /\ WholeYears(b, today) <= 100)
            /\ dates = {} =>
                   /\ ~d_out[1].val.is_reasonable
                   /\ d_out[1].val.issues = <<Some("Invalid date format")>>

\* C8 witness: someone who turns 18 on the current date was found reasonable.
C8_Witness ==
    /\ d_out # None
    /\ d_str = Fmt(today[1] - 18, today[2], today[3])
    /\ d_out[1].val.is_reasonable

\* C8, other boundary: someone whose 101st birthday is the day after the
\* current date (age 100) was found reasonable.
C8_Age100 ==
    /\ d_out # None
    /\ d_str = Fmt(today[1] - 101, today[2], today[3] + 1)
    /\ d_out[1].val.is_reasonable

\* C9: the issues sequence holds exactly the issues that apply and no
\* placeholder entry: it is empty for a reasonable date.
C9_IssuesHoldNoPlaceholder ==
    d_out # None =>
        /\ \A i \in 1..Len(d_out[1].val.issues) : d_out[1].val.issues[i] # None
        /\ d_out[1].val.is_reasonable => d_out[1].val.issues = <<>>

----------------------------------------------------------------------------
(* Properties of process_kyc_document that rest on the date check *)

\* Object obj has a date_of_birth that writes a date not later than the
\* current date t with an age in whole years from 18 to 100.
HasAdultBirthDate(obj, t) ==
    /\ \E i \in 1..Len(obj) : obj[i][1] = "date_of_birth"
    /\ \E b \in DatesWritten(DictGet(obj, "date_of_birth", <<>>), t) :
           /\ ~InFuture(b, t)
           /\ WholeYears(b, t) >= 18
           /\ WholeYears(b, t) <= 100

\* The extraction returned to run r a JSON object whose keys are the required
\* fields of the run's document type, which is utility_bill or bank_statement.
BillWithRequiredFields(r) ==
    /\ doc_type[r] \in {UTILITY_BILL, BANK_STATEMENT}
    /\ ExtractedObject(r) # None
    /\ DictKeys(ExtractedObject(r)[1]) = RegistryFields(doc_type[r])

\* C18: a run returns a Success only if the extracted output is no JSON or is
\* an object with a date_of_birth giving an age from 18 to 100. A
\* utility_bill or bank_statement extraction holding exactly the required
\* fields never gives a Success: the date check runs on the empty string and
\* the run returns the Failure "Date validation failed" with the one issue
\* "Invalid date format".
C18_SuccessNeedsAdultBirthDate ==
    \A r \in Runs :
        /\ (pc[r] = "done" /\ result[r].status = "success") =>
               \/ ExtractedUnparsable(r)
               \/ /\ ExtractedObject(r) # None
                  /\ HasAdultBirthDate(ExtractedObject(r)[1], today)
        /\ (BillWithRequiredFields(r) /\ pc[r] \in {"validate", "done"}) =>
               /\ pc[r] = "done"
               /\ result[r].status = "error"
               /\ result[r].error_message = Msg("Date validation failed", <<>>)
               /\ result[r].date_issues = <<Some("Invalid date format")>>
               /\ calls[r] = <<"assess_quality", "classify", "extract", "date_check">>

\* C18 witness: a utility_bill extraction holding exactly the five required
\* fields ended the run in the date Failure.
C18_Witness ==
    \E r \in Runs :
        /\ doc_type[r] = UTILITY_BILL
        /\ BillWithRequiredFields(r)
        /\ extracted_info[r].validation_result.is_valid
        /\ pc[r] = "done"
        /\ result[r].date_issues = <<Some("Invalid date format")>>

\* C18, first part: a Success was returned for an object with a date of birth
\* exactly 18 years back.
C18_SuccessAtEighteen ==
    \E r \in Runs :
        /\ pc[r] = "done"
        /\ result[r].status = "success"
        /\ ExtractedObject(r) # None
        /\ DictGet(ExtractedObject(r)[1], "date_of_birth", <<>>) =
               Fmt(today[1] - 18, today[2], today[3])

====
